---------------------------- MODULE Spec2Model ----------------------------
(***************************************************************************)
(* Model of the grower-certificates trackers:                              *)
(*   src/tracker.py            the desktop tracker (PySimpleGUI)           *)
(*   src/tracker_streamlit.py  the web tracker (Streamlit)                 *)
(*                                                                         *)
(* Four specifications share the module, one per part of the program:     *)
(*   SpecStatus  the two status classifiers                                *)
(*   SpecLoad    header reconciliation and the certificate loader          *)
(*   SpecView    the filters and the summary counts                        *)
(*   SpecLog     the contact log of a session, desktop and web             *)
(* Each leaves the variables of the other parts at their idle value.       *)
(***************************************************************************)
EXTENDS Integers, Sequences, FiniteSets, TLC

VARIABLES
    \* ---- SpecStatus: one classified cell
    program,            \* "web" (tracker_streamlit.py) or "desktop" (tracker.py)
    cell,               \* the raw value of the Expiry Date cell
    today,              \* the clock when the classification started
    Days_Until_Expiry,  \* web only: the derived column (NaN when absent)
    Status              \* the derived Status of the cell, "none" before

statusVars == <<cell, today, Days_Until_Expiry, Status>>

VARIABLES
    \* ---- SpecLoad: one certificate sheet and the table loaded from it
    sheet,              \* the raw headers of the uploaded sheet
    col_map,            \* raw header -> canonical name, as pairs <<raw, canonical>>
    df,                 \* the table's columns, as pairs <<column name, origin>>
    loadState           \* "none", "loaded", or "failed" when the load raised

loadVars == <<sheet, col_map, df, loadState>>

VARIABLES
    \* ---- SpecView and SpecLog: one session over a loaded table
    rows,               \* the rows of df: [Supplier, Status]
    selected,           \* web: the selectbox; desktop: the supplier of the picked row
    search,             \* the text of the search box
    show_only,          \* web: the "Show only" selectbox
    filtered,           \* web: the filtered view
    metrics,            \* web: the five summary counts
    shown,              \* desktop: the rows the table widget displays
    running,            \* FALSE once the program has exited or died of an exception
    event               \* what the last handler did

viewVars == <<rows, selected, search, show_only, filtered, metrics, shown,
              running, event>>

VARIABLES
    \* ---- SpecLog: the contact log of the session
    contact_file,       \* web: the contact log upload (a file or None)
    in_session,         \* web: "contact_log" in st.session_state
    contact_log,        \* web: st.session_state.contact_log
    blob,               \* web: the data bound to "Download Contact Log Excel"
    download,           \* web: the file a click on that button delivered
    message,            \* the message the handler showed
    log_df,             \* desktop: the in-memory log
    file,               \* desktop: CONTACT_FILE on disk
    lastWrite,          \* desktop: "none", or how the last to_excel ended
    loadedLog,          \* history: the entries loaded at the session's start
    appended            \* history: the entries appended since, in order

logVars == <<contact_file, in_session, contact_log, blob, download, message,
             log_df, file, lastWrite, loadedLog, appended>>

vars == <<program, statusVars, loadVars, viewVars, logVars>>

(***************************************************************************)
(* Time.  A timestamp is a whole number of ticks; a day is TicksPerDay     *)
(* ticks, so that timestamps inside a day exist.                           *)
(***************************************************************************)
TicksPerDay == 2
MaxNow == 3
MaxDrift == 1
SlackDays == 2

EXPIRY_WARNING_DAYS == 60
Desk_EXPIRY_WARNING_DAYS == 60

\* A parsed timestamp: Timestamp(t), NaT, or the exception to_datetime raised.
Timestamp(t) == [tag |-> "ts", at |-> t]
NaT == [tag |-> "NaT", at |-> 0]
ParseError == [tag |-> "raise", at |-> 0]

\* A number of days, or NaN.
Days(n) == [nan |-> FALSE, n |-> n]
NaN == [nan |-> TRUE, n |-> 0]

\* timedelta(days=n)
timedelta(n) == n * TicksPerDay

\* The raw cells of a sheet: a timestamp, a blank cell (NaN or the empty
\* string of a synthesized column), or text that is no date.
DateCell(t) == [kind |-> "date", at |-> t]
BlankCell == [kind |-> "blank", at |-> 0]
TextCell == [kind |-> "text", at |-> 0]

MinDate == 0 - (SlackDays * TicksPerDay)
MaxDate == MaxNow + MaxDrift + timedelta(EXPIRY_WARNING_DAYS + SlackDays)

Cells == {DateCell(t) : t \in MinDate..MaxDate} \cup {BlankCell, TextCell}

(***************************************************************************)
(* pandas.to_datetime on one value.  A blank value parses to NaT; text     *)
(* that is no date raises unless errors="coerce", which turns it into NaT. *)
(***************************************************************************)
to_datetime(x, coerce) ==
    CASE x.kind = "date" -> Timestamp(x.at)
      [] x.kind = "blank" -> NaT
      [] OTHER -> IF coerce THEN NaT ELSE ParseError

\* Timestamp < datetime; every comparison with NaT is False.
Before(a, t) == a.tag = "ts" /\ a.at < t

(***************************************************************************)
(* tracker_streamlit.py: Days_Until_Expiry and status_from_days            *)
(***************************************************************************)
\* (df["Expiry Date"] - today).dt.days: the floor of the difference in days
days_until(expiry, now) ==
    IF expiry.tag = "ts" THEN Days((expiry.at - now) \div TicksPerDay) ELSE NaN

status_from_days(days) ==
    IF days.nan THEN "Unknown"
    ELSE IF days.n < 0 THEN "Expired"
    ELSE IF days.n <= EXPIRY_WARNING_DAYS THEN "Expiring Soon"
    ELSE "Valid"

(***************************************************************************)
(* tracker.py: get_status.  The clock is read once per comparison: now2    *)
(* is the second reading.  The bare except turns any exception into        *)
(* "Unknown".                                                              *)
(***************************************************************************)
get_status(expiry_str, now1, now2) ==
    LET expiry == to_datetime(expiry_str, FALSE) IN
    IF expiry = ParseError THEN "Unknown"
    ELSE IF Before(expiry, now1) THEN "Expired"
    ELSE IF Before(expiry, now2 + timedelta(Desk_EXPIRY_WARNING_DAYS))
         THEN "Expiring Soon"
    ELSE "Valid"

(***************************************************************************)
(* Text.  A string is a sequence of one-character strings; Ord gives a     *)
(* character's code point, which is what Python compares strings by.       *)
(***************************************************************************)
Ord(c) ==
    CASE c = " " -> 32
      [] c = "." -> 46
      [] c = "5" -> 53
      [] c = ":" -> 58
      [] c = "A" -> 65
      [] c = "B" -> 66
      [] c = "C" -> 67
      [] c = "D" -> 68
      [] c = "E" -> 69
      [] c = "M" -> 77
      [] c = "N" -> 78
      [] c = "S" -> 83
      [] c = "U" -> 85
      [] c = "_" -> 95
      [] c = "a" -> 97
      [] c = "b" -> 98
      [] c = "c" -> 99
      [] c = "d" -> 100
      [] c = "e" -> 101
      [] c = "f" -> 102
      [] c = "i" -> 105
      [] c = "l" -> 108
      [] c = "m" -> 109
      [] c = "n" -> 110
      [] c = "o" -> 111
      [] c = "p" -> 112
      [] c = "r" -> 114
      [] c = "s" -> 115
      [] c = "t" -> 116
      [] c = "u" -> 117
      [] c = "x" -> 120
      [] c = "y" -> 121

N_Supplier == <<"S", "u", "p", "p", "l", "i", "e", "r">>
N_CertificationBody == <<"C", "e", "r", "t", "i", "f", "i", "c", "a", "t", "i", "o", "n", " ", "B", "o", "d", "y">>
N_Certificate == <<"C", "e", "r", "t", "i", "f", "i", "c", "a", "t", "e">>
N_CertificateNo == <<"C", "e", "r", "t", "i", "f", "i", "c", "a", "t", "e", " ", "N", "o">>
N_ExpiryDate == <<"E", "x", "p", "i", "r", "y", " ", "D", "a", "t", "e">>
N_ExpiryDateSp == <<"E", "x", "p", "i", "r", "y", " ", "D", "a", "t", "e", " ">>
N_SupplierName == <<"S", "u", "p", "p", "l", "i", "e", "r", " ", "N", "a", "m", "e">>
N_CertBody == <<"C", "e", "r", "t", " ", "B", "o", "d", "y">>
N_ExpDate == <<"E", "x", "p", ".", " ", "D", "a", "t", "e">>
N_CertificationNo == <<"C", "e", "r", "t", "i", "f", "i", "c", "a", "t", "i", "o", "n", " ", "N", "o">>
N_Unnamed == <<"U", "n", "n", "a", "m", "e", "d", ":", " ", "5">>
N_Days_Until_Expiry == <<"D", "a", "y", "s", "_", "U", "n", "t", "i", "l", "_", "E", "x", "p", "i", "r", "y">>
N_Status == <<"S", "t", "a", "t", "u", "s">>

\* str.lower on one character
Lower(c) ==
    CASE c = "A" -> "a"
      [] c = "B" -> "b"
      [] c = "C" -> "c"
      [] c = "D" -> "d"
      [] c = "E" -> "e"
      [] c = "M" -> "m"
      [] c = "N" -> "n"
      [] c = "S" -> "s"
      [] c = "U" -> "u"
      [] OTHER -> c

\* "an empty string", the cells of a synthesized column
Synth == << >>
\* the origin of a column the loader computes
Derived == <<"=">>

RECURSIVE lstrip(_)
lstrip(s) == IF s # << >> /\ Head(s) = " " THEN lstrip(Tail(s)) ELSE s

RECURSIVE rstrip(_)
rstrip(s) ==
    IF s # << >> /\ s[Len(s)] = " " THEN rstrip(SubSeq(s, 1, Len(s) - 1)) ELSE s

\* str.strip
strip(s) == rstrip(lstrip(s))

\* Python's s < t on strings: by code point, a proper prefix first
RECURSIVE StrLess(_, _)
StrLess(s, t) ==
    IF t = << >> THEN FALSE
    ELSE IF s = << >> THEN TRUE
    ELSE IF Head(s) # Head(t) THEN Ord(Head(s)) < Ord(Head(t))
    ELSE StrLess(Tail(s), Tail(t))

Unnamed == <<"u", "n", "n", "a", "m", "e", "d">>

\* df.columns.str.contains(r"^Unnamed", case=False)
IsUnnamed(s) ==
    /\ Len(s) >= Len(Unnamed)
    /\ \A i \in 1..Len(Unnamed) : Lower(s[i]) = Unnamed[i]

(***************************************************************************)
(* difflib.SequenceMatcher(None, a, b).ratio(), as the fraction            *)
(* <<2 * matches, len(a) + len(b)>>.  No character is junk (isjunk is      *)
(* None, and the automatic junk heuristic needs 200 characters).           *)
(***************************************************************************)
\* the length of the common run of a[i..ahi] and b[j..bhi]
RECURSIVE RunLen(_, _, _, _, _, _)
RunLen(a, b, i, j, ahi, bhi) ==
    IF i > ahi \/ j > bhi \/ a[i] # b[j] THEN 0
    ELSE 1 + RunLen(a, b, i + 1, j + 1, ahi, bhi)

Max(S) == CHOOSE x \in S : \A y \in S : y <= x
Min(S) == CHOOSE x \in S : \A y \in S : x <= y

\* the one element of a singleton; it binds a computed value to a name
Only(S) == CHOOSE x \in S : TRUE

\* find_longest_match: the longest block, of those the one starting earliest
\* in a, of those the one starting earliest in b; <<i, j, k>>
find_longest_match(a, b, alo, ahi, blo, bhi) ==
    Only({ Only({ <<i, Min({j \in blo..bhi : RunLen(a, b, i, j, ahi, bhi) = k}), k>> :
                  i \in {Min({i2 \in alo..ahi :
                            \E j \in blo..bhi : RunLen(a, b, i2, j, ahi, bhi) = k})} }) :
           k \in {Max({RunLen(a, b, i, j, ahi, bhi) :
                         i \in alo..ahi, j \in blo..bhi})} })

\* get_matching_blocks, summed: the number of matched characters
RECURSIVE Matches(_, _, _, _, _, _)
Matches(a, b, alo, ahi, blo, bhi) ==
    IF alo > ahi \/ blo > bhi THEN 0
    ELSE Only({ IF m[3] = 0 THEN 0
                ELSE m[3] + Matches(a, b, alo, m[1] - 1, blo, m[2] - 1)
                          + Matches(a, b, m[1] + m[3], ahi, m[2] + m[3], bhi) :
                m \in {find_longest_match(a, b, alo, ahi, blo, bhi)} })

ratio(a, b) ==
    IF Len(a) + Len(b) = 0 THEN <<1, 1>>
    ELSE <<2 * Matches(a, b, 1, Len(a), 1, Len(b)), Len(a) + Len(b)>>

\* comparisons of fractions with positive denominators
FracLess(p, q) == p[1] * q[2] < q[1] * p[2]
FracGeq(p, q) == p[1] * q[2] >= q[1] * p[2]

(***************************************************************************)
(* The canonical schemas and the acceptance thresholds                     *)
(***************************************************************************)
\* tracker_streamlit.py: EXPECTED.keys(), in insertion order
EXPECTED ==
    <<N_Supplier, N_CertificationBody, N_Certificate, N_ExpiryDate>>
\* tracker.py: EXPECTED_COLUMNS
EXPECTED_COLUMNS ==
    <<N_Supplier, N_CertificationBody, N_CertificateNo, N_ExpiryDate>>

\* cutoff=0.5 and cutoff=0.6
Web_cutoff == <<5, 10>>
Desk_cutoff == <<6, 10>>

Expected(p) == IF p = "web" THEN EXPECTED ELSE EXPECTED_COLUMNS
Cutoff(p) == IF p = "web" THEN Web_cutoff ELSE Desk_cutoff
Range(f) == {f[i] : i \in DOMAIN f}

\* The headers a sheet may carry, and every name a column can have.
HeaderPool ==
    {N_Supplier, N_CertificationBody, N_Certificate, N_CertificateNo,
     N_ExpiryDate, N_ExpiryDateSp, N_SupplierName, N_CertBody, N_ExpDate,
     N_CertificationNo, N_Unnamed}
MaxHeaders == 5
Sheets == {hs \in SUBSET HeaderPool : Cardinality(hs) <= MaxHeaders}
ColumnUniverse ==
    {strip(h) : h \in HeaderPool} \cup {N_Days_Until_Expiry, N_Status}

\* ratio() of every column name against every canonical name, computed once
ScoreTable ==
    [w \in Range(EXPECTED) \cup Range(EXPECTED_COLUMNS), x \in ColumnUniverse
        |-> ratio(x, w)]

\* The (score, x) pairs of get_close_matches are ordered by score, then by x.
ScoredLess(w, x, y) ==
    \/ FracLess(ScoreTable[w, x], ScoreTable[w, y])
    \/ ScoreTable[w, x] = ScoreTable[w, y] /\ StrLess(x, y)

\* get_close_matches keeping the worst acceptable possibility (nsmallest
\* where the library uses nlargest)
get_close_matches_worst(word, possibilities, cutoff) ==
    LET ok == {x \in possibilities : FracGeq(ScoreTable[word, x], cutoff)}
    IN {x \in ok : \A y \in ok \ {x} : ScoredLess(word, x, y)}

\* difflib.get_close_matches(word, possibilities, n=1, cutoff): the set
\* holding the best acceptable possibility, or the empty set.  (The
\* quick_ratio filters are upper bounds of ratio and reject nothing more.)
get_close_matches(word, possibilities, cutoff) ==
    LET ok == {x \in possibilities : FracGeq(ScoreTable[word, x], cutoff)}
    IN {x \in ok : \A y \in ok \ {x} : ScoredLess(word, y, x)}

\* col_map[match[0]] = col: a dict assignment, replacing what match[0] had
Bind(m, h, c) == {q \in m : q[1] # h} \cup {<<h, c>>}

\* the for loop building col_map, from the i-th canonical name on
RECURSIVE BuildColMap(_, _, _, _, _)
BuildColMap(expected, i, columns, cutoff, m) ==
    IF i > Len(expected) THEN m
    ELSE LET match == get_close_matches(expected[i], columns, cutoff)
         IN BuildColMap(expected, i + 1, columns, cutoff,
                IF match = {} THEN m
                ELSE Bind(m, CHOOSE h \in match : TRUE, expected[i]))

ColumnNames(t) == {q[1] : q \in t}
Count(t, name) == Cardinality({q \in t : q[1] = name})

\* df.rename(columns=col_map)
rename(t, m) ==
    {<<IF \E q \in m : q[1] = c[1]
          THEN (CHOOSE q \in m : q[1] = c[1])[2] ELSE c[1], c[2]>> : c \in t}

\* for col in EXPECTED: if col not in df.columns: df[col] = ""
EnsureColumns(t, expected) ==
    t \cup {<<c, Synth>> : c \in Range(expected) \ ColumnNames(t)}

\* df[name] = <computed series>: the column is replaced, or added
Assign(t, name) == {q \in t : q[1] # name} \cup {<<name, Derived>>}

\* the columns as read: the stripped header, remembering the raw one
ReadColumns(hs) == {<<strip(h), h>> : h \in hs}

\* df.loc[:, ~df.columns.str.contains(r"^Unnamed", case=False)]
DropUnnamed(t) == {q \in t : ~IsUnnamed(q[1])}

\* tracker_streamlit.py 30-45 / tracker.py 17-32: the table before the
\* derived columns
Reconciled(p, hs) ==
    LET t == IF p = "web" THEN DropUnnamed(ReadColumns(hs)) ELSE ReadColumns(hs)
        m == BuildColMap(Expected(p), 1, ColumnNames(t), Cutoff(p), {})
    IN [col_map |-> m, df |-> EnsureColumns(rename(t, m), Expected(p))]

\* df["Expiry Date"] selects a frame, not a series, when two columns carry
\* the name: to_datetime (web) and the assignment of the applied result
\* (desktop) raise ValueError on it.
ExpiryAmbiguous(t) == Count(t, N_ExpiryDate) > 1

\* tracker_streamlit.py 47-62 / tracker.py 47: the derived columns
Derive(p, t) ==
    IF p = "web" THEN Assign(Assign(t, N_Days_Until_Expiry), N_Status)
    ELSE Assign(t, N_Status)

(***************************************************************************)
(* The table of a session, and the filters                                 *)
(***************************************************************************)
S_Ab == <<"A", "b">>
S_B == <<"B">>
Suppliers == {S_Ab, S_B}
Statuses == {"Valid", "Expiring Soon", "Expired", "Unknown"}

\* the first entry of the grower selectbox
AllGrowers == <<"(All growers)">>
\* the first entry of the "Show only" selectbox
All == "All"

MaxRows == 2
RowKinds == [Supplier : Suppliers, Status : Statuses]
Tables == UNION {[1..n -> RowKinds] : n \in 0..MaxRows}

\* what is typed into a search box
SearchTexts == {<< >>, <<"a">>, <<"B">>, <<".">>, <<"a", "b">>}

lower(s) == [i \in 1..Len(s) |-> Lower(s[i])]

\* re.search(pat, s) for a pattern of literal characters and ".", which
\* matches any character; flags=re.IGNORECASE when ignorecase
re_search(pat, s, ignorecase) ==
    \E i \in 0..(Len(s) - Len(pat)) :
        \A j \in 1..Len(pat) :
            \/ pat[j] = "."
            \/ pat[j] = s[i + j]
            \/ ignorecase /\ Lower(pat[j]) = Lower(s[i + j])

\* df[mask]: the rows whose index is in keep, in order
RECURSIVE Mask(_, _, _)
Mask(t, keep, i) ==
    IF i > Len(t) THEN << >>
    ELSE (IF i \in keep THEN <<t[i]>> ELSE << >>) \o Mask(t, keep, i + 1)

\* sorted(df["Supplier"].dropna().unique().tolist()), as a set
growers(t) == {t[i].Supplier : i \in 1..Len(t)}

\* tracker_streamlit.py 151-158
ApplyFilters(t, sel, srch, show) ==
    Mask(t, {i \in 1..Len(t) :
               /\ sel # AllGrowers => t[i].Supplier = sel
               /\ srch # << >> => re_search(srch, t[i].Supplier, TRUE)
               /\ show # All => t[i].Status = show}, 1)

CountStatus(t, st) == Cardinality({i \in 1..Len(t) : t[i].Status = st})

\* tracker_streamlit.py 160-165
Metrics(t) ==
    [total |-> Len(t),
     valid_count |-> CountStatus(t, "Valid"),
     expiring_count |-> CountStatus(t, "Expiring Soon"),
     expired_count |-> CountStatus(t, "Expired"),
     unknown_count |-> CountStatus(t, "Unknown")]

NoMetrics ==
    [total |-> 0, valid_count |-> 0, expiring_count |-> 0,
     expired_count |-> 0, unknown_count |-> 0]

\* tracker.py 85-86
DeskFiltered(t, text) ==
    Mask(t, {i \in 1..Len(t) :
               re_search(lower(text), lower(t[i].Supplier), FALSE)}, 1)

\* tracker.py 87: the columns the handler selects from the filtered frame
SearchColumns ==
    {N_Supplier, N_CertificationBody, N_CertificationNo, N_ExpiryDate, N_Status}

\* the sheets a session is started on: the canonical one of the program
\* and, for the desktop tracker, one that has a "Certification No" column too
SessionSheets(p) ==
    IF p = "web" THEN {Range(Expected(p))}
    ELSE {Range(Expected(p)), Range(Expected(p)) \cup {N_CertificationNo}}

\* the tables of the contact log sessions: every supplier on one row
LogTables ==
    {t \in Tables :
        /\ Len(t) > 0
        /\ \A i \in 1..Len(t) : t[i].Status = "Valid"
        /\ \A i, j \in 1..Len(t) : t[i].Supplier = t[j].Supplier => i = j}

(***************************************************************************)
(* The contact log                                                         *)
(***************************************************************************)
MaxLoaded == 1
MaxAppends == 2
MaxDay == 2

\* the rows of a contact log file, as read: the Date is a raw cell
RawEntries ==
    [Date : {DateCell(1), TextCell}, Supplier : Suppliers,
     Action : {"Email"}, Notes : {"old"}]
None == [present |-> FALSE, rows |-> << >>]
UploadedFile(r) == [present |-> TRUE, rows |-> r]
ContactFiles ==
    {None} \cup {UploadedFile(r) :
                   r \in UNION {[1..n -> RawEntries] : n \in 0..MaxLoaded}}

\* what the form of the web tracker offers
FormDates == 1..MaxDay
FormActions == {"Call"}
\* what the dialog of the desktop tracker offers
DeskActions == {"Call"}
DeskNotes == {"ok"}

\* init_contact_log(df_in): the Date column goes through
\* to_datetime(errors="coerce")
init_contact_log(f) ==
    IF ~f.present THEN << >>
    ELSE [i \in 1..Len(f.rows) |->
            [Date |-> to_datetime(f.rows[i].Date, TRUE),
             Supplier |-> f.rows[i].Supplier,
             Action |-> f.rows[i].Action,
             Notes |-> f.rows[i].Notes]]

\* contact_log if selected == "(All growers)"
\*     else contact_log[contact_log["Supplier"] == selected]
FilterLog(log, sel) ==
    Mask(log, {i \in 1..Len(log) : sel = AllGrowers \/ log[i].Supplier = sel}, 1)

Orderings(n) ==
    {f \in [1..n -> 1..n] : \A i, j \in 1..n : f[i] = f[j] => i = j}

\* Date descending, NaT last (na_position="last"), the NaT rows in their
\* original order
DateOrdered(log, f) ==
    \A i, j \in 1..Len(log) :
        i < j =>
            LET x == log[f[i]].Date
                y == log[f[j]].Date
            IN IF x = NaT THEN y = NaT /\ f[i] < f[j]
               ELSE y = NaT \/ x.at >= y.at

\* sort_values("Date", ascending=False): the default kind, quicksort, is
\* not a stable sort, so rows of equal Date come out in any order
sort_values(log) ==
    {[i \in 1..Len(log) |-> log[f[i]]] :
        f \in {g \in Orderings(Len(log)) : DateOrdered(log, g)}}

\* tracker.py 110: datetime.now().strftime("%Y-%m-%d")
strftime(now) == Timestamp(now \div TicksPerDay)

NoDownload == [made |-> FALSE, entries |-> << >>]
Missing == [exists |-> FALSE, rows |-> << >>]
OnDisk(r) == [exists |-> TRUE, rows |-> r]

\* the entries a contact log file on disk may hold at the start
DiskEntries ==
    [Date : {Timestamp(0)}, Supplier : Suppliers, Action : {"Email"},
     Notes : {"old"}]
DiskFiles ==
    {Missing} \cup {OnDisk(r) :
                      r \in UNION {[1..n -> DiskEntries] : n \in 0..MaxLoaded}}

(***************************************************************************)
(* SpecStatus                                                              *)
(***************************************************************************)
Programs == {"web", "desktop"}

IdleStatus ==
    /\ cell = BlankCell
    /\ today = 0
    /\ Days_Until_Expiry = NaN
    /\ Status = "none"

IdleLoad ==
    /\ sheet = {}
    /\ col_map = {}
    /\ df = {}
    /\ loadState = "none"

IdleView ==
    /\ rows = << >>
    /\ selected = AllGrowers
    /\ search = << >>
    /\ show_only = All
    /\ filtered = << >>
    /\ metrics = NoMetrics
    /\ shown = << >>
    /\ running = TRUE
    /\ event = "none"

IdleLog ==
    /\ contact_file = None
    /\ in_session = FALSE
    /\ contact_log = << >>
    /\ blob = << >>
    /\ download = NoDownload
    /\ message = "none"
    /\ log_df = << >>
    /\ file = Missing
    /\ lastWrite = "none"
    /\ loadedLog = << >>
    /\ appended = << >>

InitStatus ==
    /\ program \in Programs
    /\ IdleStatus
    /\ IdleLoad
    /\ IdleView
    /\ IdleLog

\* tracker_streamlit.py 47-61 on one row
ClassifyWeb ==
    /\ program = "web"
    /\ \E x \in Cells, now \in 0..MaxNow :
        LET expiry == to_datetime(x, TRUE) IN
        /\ cell' = x
        /\ today' = now
        /\ Days_Until_Expiry' = days_until(expiry, now)
        /\ Status' = status_from_days(days_until(expiry, now))
    /\ UNCHANGED <<program, loadVars, viewVars, logVars>>

\* tracker.py 47 on one row
ClassifyDesktop ==
    /\ program = "desktop"
    /\ \E x \in Cells, now \in 0..MaxNow, drift \in 0..MaxDrift :
        /\ cell' = x
        /\ today' = now
        /\ Status' = get_status(x, now, now + drift)
    /\ UNCHANGED <<program, Days_Until_Expiry, loadVars, viewVars, logVars>>

NextStatus == ClassifyWeb \/ ClassifyDesktop

SpecStatus == InitStatus /\ [][NextStatus]_vars

(***************************************************************************)
(* SpecLoad                                                                *)
(***************************************************************************)
InitLoad ==
    /\ program \in Programs
    /\ IdleStatus
    /\ IdleLoad
    /\ IdleView
    /\ IdleLog

\* load_and_map_certificates(file) / tracker.py 16-47 on the headers hs
LoadSheet(hs) ==
    LET r == Reconciled(program, hs) IN
    /\ sheet' = hs
    /\ col_map' = r.col_map
    /\ IF ExpiryAmbiguous(r.df)
       THEN df' = {} /\ loadState' = "failed"
       ELSE df' = Derive(program, r.df) /\ loadState' = "loaded"
    /\ UNCHANGED <<program, statusVars, viewVars, logVars>>

\* a sheet is uploaded
Load ==
    /\ loadState = "none"
    /\ \E hs \in Sheets : LoadSheet(hs)

\* the loaded table is saved and loaded again: the loader runs on its output
Reload ==
    /\ loadState = "loaded"
    /\ LoadSheet(ColumnNames(df))

NextLoad == Load \/ Reload

SpecLoad == InitLoad /\ [][NextLoad]_vars

(***************************************************************************)
(* SpecView                                                                *)
(***************************************************************************)
\* the table loaded at the start of a session
SessionTable(tables) ==
    /\ program \in Programs
    /\ \E hs \in SessionSheets(program) :
          /\ sheet = hs
          /\ col_map = Reconciled(program, hs).col_map
          /\ df = Derive(program, Reconciled(program, hs).df)
    /\ loadState = "loaded"
    /\ rows \in tables

InitView ==
    /\ IdleStatus
    /\ IdleLog
    /\ SessionTable(Tables)
    /\ selected = AllGrowers
    /\ search = << >>
    /\ show_only = All
    /\ filtered = << >>
    /\ metrics = NoMetrics
    /\ shown = IF program = "desktop" THEN rows ELSE << >>
    /\ running = TRUE
    /\ event = "none"

\* tracker_streamlit.py 135-173: a run of the script with the widgets at
\* sel, srch and show
WebView ==
    /\ program = "web"
    /\ \E sel \in {AllGrowers} \cup growers(rows), srch \in SearchTexts,
          show \in {All} \cup Statuses :
        /\ selected' = sel
        /\ search' = srch
        /\ show_only' = show
        /\ filtered' = ApplyFilters(rows, sel, srch, show)
        /\ metrics' = Metrics(ApplyFilters(rows, sel, srch, show))
    /\ event' = "view"
    /\ UNCHANGED <<program, statusVars, loadVars, logVars, rows, shown, running>>

\* tracker.py 84-87: the -SEARCH- event.  Selecting a column the frame
\* does not have raises KeyError, which nothing catches.
DeskSearch ==
    /\ program = "desktop"
    /\ running
    /\ \E text \in SearchTexts :
        /\ search' = text
        /\ IF SearchColumns \subseteq ColumnNames(df)
           THEN shown' = DeskFiltered(rows, text) /\ running' = TRUE
           ELSE shown' = shown /\ running' = FALSE
    /\ event' = "search"
    /\ UNCHANGED <<program, statusVars, loadVars, logVars, rows, selected,
                   show_only, filtered, metrics>>

NextView == WebView \/ DeskSearch

SpecView == InitView /\ [][NextView]_vars

(***************************************************************************)
(* SpecLog                                                                 *)
(***************************************************************************)
InitLog ==
    /\ IdleStatus
    /\ SessionTable(LogTables)
    /\ selected = AllGrowers
    /\ search = << >>
    /\ show_only = All
    /\ filtered = << >>
    /\ metrics = NoMetrics
    /\ shown = IF program = "desktop" THEN rows ELSE << >>
    /\ running = TRUE
    /\ event = "none"
    /\ contact_file = None
    /\ in_session = FALSE
    /\ contact_log = << >>
    /\ blob = << >>
    /\ download = NoDownload
    /\ message = "none"
    \* tracker.py 49-53
    /\ file \in (IF program = "desktop" THEN DiskFiles ELSE {Missing})
    /\ log_df = file.rows
    /\ loadedLog = file.rows
    /\ lastWrite = "none"
    /\ appended = << >>

webLogUnchanged ==
    UNCHANGED <<program, statusVars, loadVars, rows, search, show_only,
                filtered, metrics, shown, running, log_df, file, lastWrite>>

\* tracker_streamlit.py 110-233, the form not submitted: a run of the script
\* after the contact upload or the grower selection changed
WebRun ==
    /\ program = "web"
    /\ \E cf \in ContactFiles, sel \in {AllGrowers} \cup growers(rows) :
        /\ contact_file' = cf
        /\ selected' = sel
        /\ in_session' = TRUE
        /\ contact_log' = IF in_session THEN contact_log ELSE init_contact_log(cf)
        /\ loadedLog' = IF in_session THEN loadedLog ELSE init_contact_log(cf)
        /\ blob' \in sort_values(FilterLog(contact_log', sel))
    /\ download' = NoDownload
    /\ message' = "none"
    /\ event' = "run"
    /\ UNCHANGED appended
    /\ webLogUnchanged

\* tracker_streamlit.py 110-233 with submitted = True: the download button
\* is given its data (192-201) before the form appends (216-228)
WebSubmit ==
    /\ program = "web"
    /\ in_session
    /\ blob' \in sort_values(FilterLog(contact_log, selected))
    /\ \E c_date \in FormDates, c_action \in FormActions :
        IF selected = AllGrowers
        THEN /\ message' = "Please select a specific grower to log a contact."
             /\ UNCHANGED <<contact_log, appended>>
        ELSE LET new_row == [Date |-> Timestamp(c_date), Supplier |-> selected,
                             Action |-> c_action, Notes |-> "ok"]
             IN /\ Len(appended) < MaxAppends
                /\ contact_log' = Append(contact_log, new_row)
                /\ appended' = Append(appended, new_row)
                /\ message' = "Contact saved in session."
    /\ download' = NoDownload
    /\ event' = "submit"
    /\ UNCHANGED <<contact_file, in_session, selected, loadedLog>>
    /\ webLogUnchanged

\* a click on "Download Contact Log Excel": the browser gets the data the
\* button was given when it was rendered, then the script runs again
WebDownload ==
    /\ program = "web"
    /\ in_session
    /\ download' = [made |-> TRUE, entries |-> blob]
    /\ blob' \in sort_values(FilterLog(contact_log, selected))
    /\ message' = "none"
    /\ event' = "download"
    /\ UNCHANGED <<contact_file, in_session, selected, contact_log, loadedLog,
                   appended>>
    /\ webLogUnchanged

deskLogUnchanged ==
    UNCHANGED <<program, statusVars, loadVars, rows, search, show_only,
                filtered, metrics, shown, contact_file, in_session,
                contact_log, blob, download, loadedLog>>

\* tracker.py 90-94: "Log Contact" with no row selected
DeskLogNoSelection ==
    /\ program = "desktop"
    /\ running
    /\ message' = "Please select a supplier from the table."
    /\ event' = "rejected"
    /\ UNCHANGED <<selected, running, log_df, file, lastWrite, appended>>
    /\ deskLogUnchanged

\* tracker.py 90-107: "Log Contact" on row sel of the table, then Cancel
DeskLogCancel ==
    /\ program = "desktop"
    /\ running
    /\ \E sel \in 1..Len(shown) : selected' = shown[sel].Supplier
    /\ message' = "none"
    /\ event' = "cancel"
    /\ UNCHANGED <<running, log_df, file, lastWrite, appended>>
    /\ deskLogUnchanged

\* tracker.py 90-118: "Log Contact" on row sel of the table, then Save.
\* The entry is appended in memory (115) before to_excel writes the file
\* (116); an exception of to_excel is caught nowhere.
DeskLogSave ==
    /\ program = "desktop"
    /\ running
    /\ Len(appended) < MaxAppends
    /\ \E sel \in 1..Len(shown), now \in 0..MaxNow, action \in DeskActions,
          notes \in DeskNotes, written \in BOOLEAN :
        LET supplier == rows[sel].Supplier
            new_entry == [Date |-> strftime(now), Supplier |-> supplier,
                          Action |-> action, Notes |-> notes]
        IN /\ selected' = shown[sel].Supplier
           /\ log_df' = Append(log_df, new_entry)
           /\ appended' = Append(appended, new_entry)
           /\ IF written
              THEN /\ file' = OnDisk(log_df')
                   /\ lastWrite' = "written"
                   /\ message' = "Contact Saved"
                   /\ running' = TRUE
              ELSE /\ file' = file
                   /\ lastWrite' = "failed"
                   /\ message' = "none"
                   /\ running' = FALSE
    /\ event' = "save"
    /\ deskLogUnchanged

\* tracker.py 80-81
DeskExit ==
    /\ program = "desktop"
    /\ running
    /\ running' = FALSE
    /\ message' = "none"
    /\ event' = "exit"
    /\ UNCHANGED <<selected, log_df, file, lastWrite, appended>>
    /\ deskLogUnchanged

NextLog ==
    \/ WebRun
    \/ WebSubmit
    \/ WebDownload
    \/ DeskSearch
    \/ DeskLogNoSelection
    \/ DeskLogCancel
    \/ DeskLogSave
    \/ DeskExit

SpecLog == InitLog /\ [][NextLog]_vars

(***************************************************************************)
(* Properties of the classifiers (SpecStatus)                              *)
(***************************************************************************)
Classified == Status # "none"

\* C1: a parseable expiry date d classified at time t with window w is
\* Expired when d < t, Expiring Soon when t <= d < t + w, and Valid when
\* d >= t + w (so d = t + w is Valid), in both classifiers.
C1_StatusByWindow ==
    (Classified /\ cell.kind = "date") =>
        LET d == cell.at
            w == timedelta(EXPIRY_WARNING_DAYS)
        IN /\ (d < today) => Status = "Expired"
           /\ (today <= d /\ d < today + w) => Status = "Expiring Soon"
           /\ (d >= today + w) => Status = "Valid"

\* C2: an expiry value that is blank or is no date is classified Unknown,
\* with Days_Until_Expiry absent, at every evaluation time and in both
\* classifiers.
C2_UnparseableIsUnknown ==
    (Classified /\ cell.kind # "date") =>
        Status = "Unknown" /\ Days_Until_Expiry = NaN

(***************************************************************************)
(* Properties of the loader (SpecLoad)                                     *)
(***************************************************************************)
\* the column names the reconciler matches against
RawColumns(p, hs) ==
    ColumnNames(IF p = "web" THEN DropUnnamed(ReadColumns(hs))
                ELSE ReadColumns(hs))

DerivedColumns(p) ==
    IF p = "web" THEN {N_Days_Until_Expiry, N_Status} ELSE {N_Status}

\* C3: for every set of raw headers the load succeeds and the table holds
\* every canonical field and the derived columns; a canonical field that no
\* header is bound to is an empty, synthesized column.
C3_LoaderFullSchema ==
    loadState # "none" =>
        /\ loadState = "loaded"
        /\ Range(Expected(program)) \subseteq ColumnNames(df)
        /\ DerivedColumns(program) \subseteq ColumnNames(df)
        /\ \A c \in Range(Expected(program)) :
              (~ \E q \in col_map : q[2] = c) => <<c, Synth>> \in df

\* C4: a raw header is bound to at most one canonical field, and when two
\* canonical fields have the same best acceptable match, the one processed
\* first keeps it.
C4_FirstClaimWins ==
    loadState # "none" =>
        LET e == Expected(program)
            best(i) == get_close_matches(e[i], RawColumns(program, sheet),
                                         Cutoff(program))
        IN /\ \A q, r \in col_map : q[1] = r[1] => q[2] = r[2]
           /\ \A i, j \in 1..Len(e) :
                 (i < j /\ best(i) # {} /\ best(i) = best(j)) =>
                     \A h \in best(i) : <<h, e[i]>> \in col_map

\* a header set that is already canonical: every canonical name is a
\* header, and no header has whitespace to trim
AlreadyCanonical ==
    /\ loadState # "none"
    /\ Range(Expected(program)) \subseteq sheet
    /\ \A h \in sheet : strip(h) = h

\* C5: reconciling an already canonical header set is the identity: every
\* canonical name is mapped to itself and nothing else is mapped, no column
\* changes its name, and no canonical column is synthesized empty.
C5_CanonicalIdentity ==
    AlreadyCanonical =>
        /\ loadState = "loaded"
        /\ col_map = {<<c, c>> : c \in Range(Expected(program))}
        /\ ColumnNames(df) =
              RawColumns(program, sheet) \cup DerivedColumns(program)
        /\ \A c \in Range(Expected(program)) :
              {q \in df : q[1] = c} = {<<c, c>>}

\* C5's case: the loader has run on a table it produced itself
C5_Witness ==
    /\ AlreadyCanonical
    /\ loadState = "loaded"
    /\ N_Status \in sheet
    /\ \E h \in sheet : h \notin Range(Expected(program)) /\ h # N_Status

(***************************************************************************)
(* Properties of the filters (SpecView)                                    *)
(***************************************************************************)
\* sub occurs in s, letter case ignored
Contains(s, sub) ==
    \E i \in 0..(Len(s) - Len(sub)) :
        \A j \in 1..Len(sub) : Lower(sub[j]) = Lower(s[i + j])

\* the rows that satisfy every active predicate
Satisfying(t, sel, srch, show) ==
    Mask(t, {i \in 1..Len(t) :
               /\ sel # AllGrowers => t[i].Supplier = sel
               /\ srch # << >> => Contains(t[i].Supplier, srch)
               /\ show # All => t[i].Status = show}, 1)

\* C10: the filtered view is exactly the rows satisfying all active
\* predicates (exact supplier, case-insensitive substring, status), the
\* loaded table is unchanged, and the summary is counted over that view:
\* total = valid + expiring + expired + unknown.
C10_FilteredViewExact ==
    /\ event = "view" =>
          /\ filtered = Satisfying(rows, selected, search, show_only)
          /\ metrics = Metrics(filtered)
          /\ metrics.total = metrics.valid_count + metrics.expiring_count
                             + metrics.expired_count + metrics.unknown_count
    /\ event = "search" =>
          /\ running
          /\ shown = Satisfying(rows, AllGrowers, search, All)

(***************************************************************************)
(* Properties of the contact log (SpecLog)                                 *)
(***************************************************************************)
\* everything the session loaded and appended, in insertion order
Everything == loadedLog \o appended

\* Date descending with entries of equal Date in insertion order
InsertionOrdered(log, f) ==
    /\ DateOrdered(log, f)
    /\ \A i, j \in 1..Len(log) :
          (i < j /\ log[f[i]].Date = log[f[j]].Date) => f[i] < f[j]

NewestFirst(log) ==
    Only({[i \in 1..Len(log) |-> log[f[i]]] :
            f \in {g \in Orderings(Len(log)) : InsertionOrdered(log, g)}})

\* C6: in the web session, once the log is loaded with L entries and N
\* submissions are accepted, the export holds each of the L + N entries
\* once (those of the selected supplier when one is selected), by Date
\* descending, entries of equal Date in insertion order.
C6_ExportComplete ==
    (program = "web" /\ in_session) =>
        /\ contact_log = Everything
        /\ blob = NewestFirst(FilterLog(Everything, selected))

Occurrences(log, e) == Cardinality({i \in 1..Len(log) : log[i] = e})

\* every entry of part is in whole, as often
Includes(whole, part) ==
    \A e \in Range(part) : Occurrences(whole, e) >= Occurrences(part, e)

\* C7: every persisted copy of the log, the file Save writes and the
\* downloaded blob whatever the selection, holds every entry loaded at the
\* start and every entry appended since.
C7_PersistedSuperset ==
    /\ event = "download" => Includes(download.entries, Everything)
    /\ (event = "save" /\ lastWrite = "written") =>
          Includes(file.rows, Everything)

\* what C8 says of one step of the session
RejectsUnselected ==
    /\ (event' = "submit" /\ selected' = AllGrowers) =>
          /\ contact_log' = contact_log
          /\ appended' = appended
          /\ message' = "Please select a specific grower to log a contact."
    /\ event' = "rejected" =>
          /\ log_df' = log_df
          /\ file' = file
          /\ appended' = appended
          /\ message' = "Please select a supplier from the table."
    /\ appended' # appended =>
          /\ Len(appended') = Len(appended) + 1
          /\ SubSeq(appended', 1, Len(appended)) = appended
          /\ selected' # AllGrowers
          /\ appended'[Len(appended')].Supplier = selected'

\* C8: a submission with no concrete supplier selected is rejected with a
\* message and changes neither the in-memory log nor the storage, and
\* every appended entry carries the supplier selected at the submission.
C8_RejectsUnselected == [][RejectsUnselected]_vars

\* C9: when writing the log to storage fails, the in-memory log and the
\* loaded table are as before the failed operation and the session goes on.
C9_FailedWriteKeepsState ==
    [][(lastWrite # "failed" /\ lastWrite' = "failed") =>
          /\ log_df' = log_df
          /\ rows' = rows
          /\ running'
      ]_vars

=============================================================================
